---- MODULE Spec2Model ----
(***************************************************************************)
(* Speech-evaluation backend: backend/ai_model.py and backend/server.py.   *)
(*                                                                         *)
(* Numbers.  A normalized score s in [0,1] is the integer s * Unit.  A     *)
(* ratio that the code compares against band thresholds (wpm, ttr, the     *)
(* grammar score, the filler rate) is kept exact as <<num, den>> with      *)
(* den > 0 and compared by cross-multiplication.  None is Python's None.   *)
(* Strings are TLA+ strings; substring tests, find, count, lower and the   *)
(* tokenizer are computed character by character.                          *)
(***************************************************************************)
EXTENDS Integers, Sequences, FiniteSets, TLC

VARIABLES
    model, sentiment_analyzer, tool, st_util_g,  \* module globals of ai_model.py
    constructed,                                 \* how often each capability was built
    rubric_struct, overall_weights,              \* module globals of server.py
    pc, req,                                     \* per request thread: position, locals
    map_call,                                    \* last call of a scoring mapper
    sheet, loaded                                \* load_rubric: input grid, result

vars == <<model, sentiment_analyzer, tool, st_util_g, constructed,
          rubric_struct, overall_weights, pc, req, map_call, sheet, loaded>>

\* Python's None; a present optional value v is a non-empty tuple
None == <<>>
Unit == 10 * 100

----------------------------------------------------------------------------
(* Python string primitives *)

\* kw in s
Contains(s, kw) ==
    \E i \in 1..(Len(s) - Len(kw) + 1) : SubSeq(s, i, i + Len(kw) - 1) = kw

\* s.find(kw): 0-based index of the first occurrence, -1 when there is none
Find(s, kw) ==
    LET hits == {i \in 1..(Len(s) - Len(kw) + 1) : SubSeq(s, i, i + Len(kw) - 1) = kw}
    IN  IF hits = {} THEN -1
        ELSE (CHOOSE i \in hits : \A j \in hits : i <= j) - 1

\* s.count(kw): number of non-overlapping occurrences, scanning left to right
RECURSIVE CountFrom(_, _, _)
CountFrom(s, kw, i) ==
    IF i + Len(kw) - 1 > Len(s) THEN 0
    ELSE IF SubSeq(s, i, i + Len(kw) - 1) = kw
         THEN 1 + CountFrom(s, kw, i + Len(kw))
         ELSE CountFrom(s, kw, i + 1)

Count(s, kw) == CountFrom(s, kw, 1)

UpperCase == "ABCDEFGHIJKLMNOPQRSTUVWXYZ"
LowerCase == "abcdefghijklmnopqrstuvwxyz"

ToLower ==
    [c \in {SubSeq(UpperCase, k, k) : k \in 1..Len(UpperCase)} |->
        LET k == Find(UpperCase, c) + 1 IN SubSeq(LowerCase, k, k)]

LowerChar(c) == IF c \in DOMAIN ToLower THEN ToLower[c] ELSE c

\* s.lower()
RECURSIVE Lower(_)
Lower(s) ==
    IF Len(s) = 0 THEN ""
    ELSE LowerChar(SubSeq(s, 1, 1)) \o Lower(SubSeq(s, 2, Len(s)))

\* sep.join(parts)
RECURSIVE Join(_, _)
Join(parts, sep) ==
    IF Len(parts) = 0 THEN ""
    ELSE IF Len(parts) = 1 THEN parts[1]
    ELSE parts[1] \o sep \o Join(Tail(parts), sep)

\* the maximal runs of non-space characters of s, in order
RECURSIVE SplitFrom(_, _, _)
SplitFrom(s, i, cur) ==
    IF i > Len(s) THEN (IF cur = "" THEN <<>> ELSE <<cur>>)
    ELSE LET c == SubSeq(s, i, i)
         IN  IF c = " "
             THEN (IF cur = "" THEN <<>> ELSE <<cur>>) \o SplitFrom(s, i + 1, "")
             ELSE SplitFrom(s, i + 1, cur \o c)

\* any(x in text for x in phrases)
AnyIn(text, phrases) == \E k \in 1..Len(phrases) : Contains(text, phrases[k])

RECURSIVE SumSeq(_)
SumSeq(q) == IF Len(q) = 0 THEN 0 ELSE q[1] + SumSeq(Tail(q))

MinOf(S) == CHOOSE m \in S : \A x \in S : m <= x

\* s.strip(), for the space character
RECURSIVE LStrip(_)
LStrip(s) == IF Len(s) > 0 /\ SubSeq(s, 1, 1) = " " THEN LStrip(SubSeq(s, 2, Len(s))) ELSE s

RECURSIVE RStrip(_)
RStrip(s) ==
    IF Len(s) > 0 /\ SubSeq(s, Len(s), Len(s)) = " " THEN RStrip(SubSeq(s, 1, Len(s) - 1)) ELSE s

Strip(s) == RStrip(LStrip(s))

Digits == "0123456789"

\* the value of a non-empty string of decimal digits, None for any other string
RECURSIVE DigitsValue(_, _)
DigitsValue(s, acc) ==
    IF Len(s) = 0 THEN <<acc>>
    ELSE IF Contains(Digits, SubSeq(s, 1, 1))
         THEN DigitsValue(SubSeq(s, 2, Len(s)), 10 * acc + Find(Digits, SubSeq(s, 1, 1)))
         ELSE None

\* float(s) of a str, for whole numbers: surrounding spaces and one sign are
\* accepted; <<"n", v>> is the number v, <<"err">> is ValueError
ParseFloat(s0) ==
    LET s == Strip(s0)
        neg == Len(s) > 0 /\ SubSeq(s, 1, 1) = "-"
        signed == Len(s) > 0 /\ SubSeq(s, 1, 1) \in {"-", "+"}
        body == IF signed THEN SubSeq(s, 2, Len(s)) ELSE s
        v == IF Len(body) = 0 THEN None ELSE DigitsValue(body, 0)
    IN  IF v = None THEN <<"err">>
        ELSE <<"n", IF neg THEN 0 - v[1] ELSE v[1]>>

\* str(n) of an int
RECURSIVE NatToStr(_)
NatToStr(n) ==
    IF n < 10 THEN SubSeq(Digits, n + 1, n + 1)
    ELSE NatToStr(n \div 10) \o SubSeq(Digits, (n % 10) + 1, (n % 10) + 1)

IntToStr(n) == IF n < 0 THEN "-" \o NatToStr(0 - n) ELSE NatToStr(n)

\* dict.__setitem__
Put(d, k, v) == [x \in DOMAIN d \cup {k} |-> IF x = k THEN v ELSE d[x]]

EmptyDict == [x \in {} |-> 0]

DefaultWeights ==
    [x \in {"Content & Structure", "Speech Rate", "Language & Grammar", "Clarity", "Engagement"} |->
        CASE x = "Content & Structure" -> 40
          [] x = "Speech Rate" -> 10
          [] x = "Language & Grammar" -> 20
          [] x = "Clarity" -> 15
          [] x = "Engagement" -> 15]

----------------------------------------------------------------------------
(* TEXT HELPERS *)

FILLER_WORDS ==
    <<"um", "uh", "like", "you know", "so", "actually",
      "basically", "right", "i mean", "hmm", "huh">>

\* re.sub(r"\s+", " ", text.strip()); the transcript is a str (server.py:43)
clean_text(text) == Join(SplitFrom(text, 1, ""), " ")

\* nltk.word_tokenize on text made of letters, spaces, "," and ".": words are
\* split at spaces and each "," or "." becomes a token of its own
RECURSIVE TokenizeFrom(_, _, _)
TokenizeFrom(s, i, cur) ==
    LET flush == IF cur = "" THEN <<>> ELSE <<cur>>
    IN  IF i > Len(s) THEN flush
        ELSE LET c == SubSeq(s, i, i)
             IN  IF c = " " THEN flush \o TokenizeFrom(s, i + 1, "")
                 ELSE IF c \in {",", "."}
                      THEN flush \o <<c>> \o TokenizeFrom(s, i + 1, "")
                      ELSE TokenizeFrom(s, i + 1, cur \o c)

word_tokenize(text) == TokenizeFrom(text, 1, "")

\* len(tokens) of word_count's (len(tokens), tokens)
word_count(text) == Len(word_tokenize(text))

\* re.search(r"\w", t): the token holds a word character
IsWordToken(t) == t \notin {",", "."}

\* <<len(set(tokens)), len(tokens)>>, or <<0, 1>> (the value 0) without tokens
distinct_word_ratio(text) ==
    LET toks == SelectSeq(word_tokenize(text), IsWordToken)
        low  == {Lower(toks[k]) : k \in 1..Len(toks)}
    IN  IF Len(toks) = 0 THEN <<0, 1>> ELSE <<Cardinality(low), Len(toks)>>

\* rate_per_100 as <<100 * count, total>>, or <<0, 1>> without tokens
filler_word_rate(text) ==
    LET tokens == word_tokenize(Lower(text))
        total  == Len(tokens)
        joined == " " \o Join(tokens, " ") \o " "
        count  == SumSeq([k \in 1..Len(FILLER_WORDS) |->
                             Count(joined, " " \o FILLER_WORDS[k] \o " ")])
    IN  IF total = 0 THEN <<0, 1>> ELSE <<100 * count, total>>

\* wc / (duration_sec / 60.0) as <<60 * wc, d>>; wc is word_count(text) and
\* duration_sec is None or <<d>>, d a whole number of seconds
compute_wpm(wc, duration_sec) ==
    IF duration_sec = None THEN None
    ELSE IF duration_sec[1] = 0 \/ duration_sec[1] <= 0 THEN None
    ELSE <<60 * wc, duration_sec[1]>>

\* score = 1.0 - min(errors_per_100 / 10.0, 1.0) with errors_per_100 =
\* (matches / wc) * 100.0, as <<wc - min(10 * matches, wc), wc>>
grammar_score_of(matches, wc) ==
    IF wc = 0 THEN <<0, 1>>
    ELSE <<wc - (IF 10 * matches < wc THEN 10 * matches ELSE wc), wc>>

----------------------------------------------------------------------------
(* SCORING MAPPERS *)

map_salutation(text0) ==
    LET text == Lower(text0)
    IN  IF AnyIn(text, <<"i am excited", "pleased to meet", "delighted">>) THEN Unit
        ELSE IF AnyIn(text, <<"good morning", "good afternoon", "good evening">>)
             THEN (8 * Unit) \div 10
        ELSE IF AnyIn(text, <<"hi", "hello">>) THEN (4 * Unit) \div 10
        ELSE 0

\* the keywords of the entries whose scoring_text does (must) or does not hold "must"
RECURSIVE KeywordsOf(_, _)
KeywordsOf(entries, must) ==
    IF Len(entries) = 0 THEN <<>>
    ELSE LET e == entries[1]
             isMust == Contains(Lower(e.scoring_text), "must")
                          \/ Contains(Lower(e.scoring_text), "must have")
         IN  (IF isMust = must THEN e.keywords ELSE <<>>)
                \o KeywordsOf(Tail(entries), must)

FoundIn(text, kws) == Cardinality({k \in 1..Len(kws) : kws[k] # "" /\ Contains(text, kws[k])})

\* 0.7 * must_score + 0.3 * good_score
map_keywords(text0, entries) ==
    LET text == Lower(text0)
        must == KeywordsOf(entries, TRUE)
        good == KeywordsOf(entries, FALSE)
        must_score == IF Len(must) > 0 THEN (FoundIn(text, must) * Unit) \div Len(must) ELSE Unit
        good_score == IF Len(good) > 0 THEN (FoundIn(text, good) * Unit) \div Len(good) ELSE Unit
    IN  (7 * must_score + 3 * good_score) \div 10

Sentinel == 99999

map_flow(text0) ==
    LET text == Lower(text0)
        sal  == <<"hi", "hello", "good morning", "good afternoon">>
        nam  == <<"my name is", "i am ", "i'm ">>
        idx_sal  == MinOf({Find(text, sal[k]) : k \in {j \in 1..Len(sal) : Contains(text, sal[j])}}
                          \cup {Sentinel})
        idx_name == MinOf({Find(text, nam[k]) : k \in {j \in 1..Len(nam) : Contains(text, nam[j])}}
                          \cup {Sentinel})
        idx_origin == IF Contains(text, "i am from") THEN Find(text, "i am from")
                      ELSE IF Contains(text, "from") THEN Find(text, "from")
                      ELSE Sentinel
    IN  IF idx_sal < idx_name /\ idx_name < idx_origin THEN Unit ELSE 0

\* comparisons of the ratio r = <<num, den>> (den > 0) with an integer k
Ge(r, k) == r[1] >= k * r[2]
Le(r, k) == r[1] <= k * r[2]
Gt(r, k) == r[1] > k * r[2]
Lt(r, k) == r[1] < k * r[2]
\* comparisons of r with k / 10
Ge10(r, k) == 10 * r[1] >= k * r[2]
Gt10(r, k) == 10 * r[1] > k * r[2]

map_speech_rate(wpm) ==
    IF wpm = None THEN 0
    ELSE IF Ge(wpm, 111) /\ Le(wpm, 140) THEN Unit
    ELSE IF Ge(wpm, 81) /\ Le(wpm, 110) THEN (6 * Unit) \div 10
    ELSE IF Gt(wpm, 160) \/ Lt(wpm, 80) THEN (2 * Unit) \div 10
    ELSE (4 * Unit) \div 10

map_grammar(score) ==
    IF Gt10(score, 9) THEN Unit
    ELSE IF Ge10(score, 7) THEN (8 * Unit) \div 10
    ELSE IF Ge10(score, 5) THEN (6 * Unit) \div 10
    ELSE IF Ge10(score, 3) THEN (4 * Unit) \div 10
    ELSE (2 * Unit) \div 10

\* map_ttr with the 0.7 band opened at its lower end
map_ttr_open07(ttr) ==
    IF Ge10(ttr, 9) THEN Unit
    ELSE IF Gt10(ttr, 7) THEN (8 * Unit) \div 10
    ELSE IF Ge10(ttr, 5) THEN (6 * Unit) \div 10
    ELSE IF Ge10(ttr, 3) THEN (4 * Unit) \div 10
    ELSE (2 * Unit) \div 10

map_ttr(ttr) ==
    IF Ge10(ttr, 9) THEN Unit
    ELSE IF Ge10(ttr, 7) THEN (8 * Unit) \div 10
    ELSE IF Ge10(ttr, 5) THEN (6 * Unit) \div 10
    ELSE IF Ge10(ttr, 3) THEN (4 * Unit) \div 10
    ELSE (2 * Unit) \div 10

map_filler(rate) ==
    IF Le(rate, 3) THEN Unit
    ELSE IF Le(rate, 6) THEN (8 * Unit) \div 10
    ELSE IF Le(rate, 9) THEN (6 * Unit) \div 10
    ELSE IF Le(rate, 12) THEN (4 * Unit) \div 10
    ELSE (2 * Unit) \div 10

----------------------------------------------------------------------------
(* Bounds *)

MaxWords == 340      \* word counts given to compute_wpm
MaxDen == 20         \* denominators of the ratios given to map_ttr / map_grammar
MaxWeightRows == 2   \* rows of the overall-weights table of a sheet
MaxDetailRows == 2   \* rows of the detailed table of a sheet
MaxMatches == 1      \* issues the grammar checker reports for one transcript

----------------------------------------------------------------------------
(* Requests and rubrics                                                    *)
(* rubric_struct is the dict in iteration order: a sequence of             *)
(* [crit, entries]; overall_weights is a mapping name -> weight.           *)

Threads == {"t1", "t2"}

Transcripts ==
    {"Hi, my name is Nikhitha. I am from Hyderabad.",
     "  um  so I am delighted   to talk about python ",
     ""}

\* the duration form field: absent, or a str
DurationForms == {None, <<"abc">>, <<"0">>, <<"6">>}

Entry(crit, metric, scoring_text, keywords) ==
    [criteria |-> crit, metric |-> metric, scoring_text |-> scoring_text, keywords |-> keywords]

Criterion(crit, entries) == [crit |-> crit, entries |-> entries]

\* the rubric the server of Spec holds
ServerRubric ==
    <<Criterion("Content & Structure",
                <<Entry("Content & Structure", "Salutation Level", "greets the audience", <<>>)>>),
      Criterion("Speech Rate",
                <<Entry("Speech Rate", "Speech rate (WPM)", "111 to 140 is ideal", <<>>)>>),
      Criterion("Clarity",
                <<Entry("Clarity", "Overall impression", "clear and confident delivery", <<>>)>>)>>

\* two criteria the default weight table does not name
TwoGreetings ==
    <<Criterion("Greeting", <<Entry("Greeting", "Salutation Level", "", <<>>)>>),
      Criterion("Introduction", <<Entry("Introduction", "Flow", "", <<>>)>>)>>

CritNames == {"Clarity", "Language & Grammar", "Audience Engagement"}

MetricLabels ==
    {"", "Salutation Level", "Keyword Presence", "Flow", "Speech rate (WPM)",
     "Grammar errors", "Vocabulary richness (TTR)", "Filler Word Rate", "Filler words",
     "Sentiment", "Overall impression"}

ScoringTexts ==
    {"", "Must have keywords", "Fewer filler words", "Salutation then a natural flow"}

\* criteria of one or two entries over the labels above
CriterionPool ==
    {Criterion(n, <<Entry(n, m, st, <<"name", "python">>)>> \o more) :
        n \in CritNames, m \in MetricLabels, st \in ScoringTexts,
        more \in {<<>>, <<Entry("", "Sentiment", "Keyword and filler use", <<"java">>)>>}}

WeightTables ==
    {DefaultWeights, Put(EmptyDict, "Clarity", 1), Put(EmptyDict, "Clarity", 0)}

\* the (rubric_struct, overall_weights) pairs of SpecEval
EvalConfigs ==
    {<<<<c>>, DefaultWeights>> : c \in CriterionPool}
    \cup ({ServerRubric, TwoGreetings} \X WeightTables)

AllCriteria ==
    CriterionPool \cup {ServerRubric[k] : k \in 1..Len(ServerRubric)}
                  \cup {TwoGreetings[k] : k \in 1..Len(TwoGreetings)}

----------------------------------------------------------------------------
(* MAIN EVALUATION FUNCTION *)

\* the chain with the filler check moved ahead of the speech/rate check
Classify_filler_first(crit, entries) ==
    LET metric == IF Len(entries) > 0 THEN Lower(entries[1].metric) ELSE ""
        joined == Join([k \in 1..Len(entries) |-> Lower(entries[k].scoring_text)], " ")
        anyText(w) == \E k \in 1..Len(entries) : Contains(Lower(entries[k].scoring_text), w)
    IN  IF Contains(metric, "salutation") \/ Contains(joined, "salutation") THEN "salutation"
        ELSE IF Contains(metric, "keyword") \/ anyText("keyword") THEN "keyword"
        ELSE IF Contains(metric, "flow") \/ anyText("flow") THEN "flow"
        ELSE IF Contains(metric, "filler") \/ Contains(joined, "filler") THEN "filler"
        ELSE IF Contains(metric, "speech") \/ Contains(metric, "rate") THEN "speech_rate"
        ELSE IF Contains(metric, "grammar") \/ Contains(Lower(crit), "language & grammar")
             THEN "grammar"
        ELSE IF Contains(metric, "vocabulary") \/ Contains(metric, "ttr") THEN "vocabulary"
        ELSE IF Contains(metric, "sentiment") \/ Contains(Lower(crit), "engagement")
             THEN "sentiment"
        ELSE "similarity"

\* the strategy the if/elif chain of evaluate_transcript selects
Classify(crit, entries) ==
    LET metric == IF Len(entries) > 0 THEN Lower(entries[1].metric) ELSE ""
        joined == Join([k \in 1..Len(entries) |-> Lower(entries[k].scoring_text)], " ")
        anyText(w) == \E k \in 1..Len(entries) : Contains(Lower(entries[k].scoring_text), w)
    IN  IF Contains(metric, "salutation") \/ Contains(joined, "salutation") THEN "salutation"
        ELSE IF Contains(metric, "keyword") \/ anyText("keyword") THEN "keyword"
        ELSE IF Contains(metric, "flow") \/ anyText("flow") THEN "flow"
        ELSE IF Contains(metric, "speech") \/ Contains(metric, "rate") THEN "speech_rate"
        ELSE IF Contains(metric, "grammar") \/ Contains(Lower(crit), "language & grammar")
             THEN "grammar"
        ELSE IF Contains(metric, "vocabulary") \/ Contains(metric, "ttr") THEN "vocabulary"
        ELSE IF Contains(metric, "filler") \/ Contains(joined, "filler") THEN "filler"
        ELSE IF Contains(metric, "sentiment") \/ Contains(Lower(crit), "engagement")
             THEN "sentiment"
        ELSE "similarity"

\* Classify, and the functions of the transcript alone, tabulated once over the
\* criteria and transcripts of the model
StrategyOf == [c \in AllCriteria |-> Classify(c.crit, c.entries)]

\* metric of lines 365-367: the lower-cased metric of the first entry
MetricOf ==
    [c \in AllCriteria |-> IF Len(c.entries) > 0 THEN Lower(c.entries[1].metric) ELSE ""]

TextFacts ==
    [tr \in Transcripts |->
        LET text == clean_text(tr)
        IN  [text |-> text,
             wc |-> word_count(text),
             ttr |-> distinct_word_ratio(text),
             filler_rate |-> filler_word_rate(text),
             salutation |-> map_salutation(text),
             flow |-> map_flow(text),
             keywords |-> [c \in {x \in AllCriteria : StrategyOf[x] = "keyword"} |->
                              map_keywords(text, c.entries)]]]

\* the metrics evaluate_transcript computes once per call (lines 344-349) from
\* f, the facts of the transcript; matches is len(tool.check(text)), unused
\* for a blank text
Metrics(f, duration_sec, matches) ==
    [wc |-> f.wc,
     wpm |-> compute_wpm(f.wc, duration_sec),
     ttr |-> f.ttr,
     filler_rate |-> f.filler_rate,
     grammar_score |-> IF Strip(f.text) = "" THEN <<0, 1>> ELSE grammar_score_of(matches, f.wc),
     grammar_errors |-> IF Strip(f.text) = "" THEN 0 ELSE matches]

\* the branch of the chain of lines 369-392 taken for strategy; sim is the
\* outcome of the embedding call, <<"ok", v>> or <<"raise">>; st_util is the
\* alias read at line 342 and mdl the global model: a call on None raises
\* inside the try, like the embedding
ScoreOf(strategy, c, f, m, sent_prob, st_util, mdl, sim) ==
    CASE strategy = "salutation" -> f.salutation
      [] strategy = "keyword" -> f.keywords[c]
      [] strategy = "flow" -> f.flow
      [] strategy = "speech_rate" -> map_speech_rate(m.wpm)
      [] strategy = "grammar" -> map_grammar(m.grammar_score)
      [] strategy = "vocabulary" -> map_ttr(m.ttr)
      [] strategy = "filler" -> map_filler(m.filler_rate)
      [] strategy = "sentiment" -> sent_prob
      [] OTHER -> IF st_util = None \/ mdl = None \/ sim[1] = "raise" THEN 0 ELSE sim[2]

\* overall_weights.get(crit, 1.0)
WeightOf(weights, crit) == IF crit \in DOMAIN weights THEN weights[crit] ELSE 1

\* sum(overall_weights.values())
RECURSIVE SumValues(_, _)
SumValues(d, keys) ==
    IF keys = {} THEN 0
    ELSE LET k == CHOOSE x \in keys : TRUE IN d[k] + SumValues(d, keys \ {k})

\* the sum of the weights of the criteria present in rubric_struct only
WeightSum_matched(weights) ==
    LET present == {rubric_struct[k].crit : k \in 1..Len(rubric_struct)} \cap DOMAIN weights
    IN  IF DOMAIN weights = {} THEN 1 ELSE SumValues(weights, present)

\* sum(overall_weights.values()) if overall_weights else 1.0
WeightSum(weights) ==
    IF DOMAIN weights = {} THEN 1 ELSE SumValues(weights, DOMAIN weights)

\* round(a / b) for b > 0: to nearest, ties to even
RoundHalfEven(a, b) ==
    LET q == a \div b
        r == a % b
    IN  IF 2 * r < b THEN q
        ELSE IF 2 * r > b THEN q + 1
        ELSE IF q % 2 = 0 THEN q ELSE q + 1

\* lines 394-400: the detail appended for the criterion c; the strategy
\* applied is recorded beside the code's four fields
Detail(c, strategy, weights, f, m, sent_prob, st_util, mdl, sim) ==
    [criterion |-> c.crit,
     metric |-> MetricOf[c],
     strategy |-> strategy,
     score_normalized |-> ScoreOf(strategy, c, f, m, sent_prob, st_util, mdl, sim),
     weight |-> WeightOf(weights, c.crit)]

\* the loop of lines 362-400: one detail per criterion, in iteration order
Details(rubric, weights, f, m, sent_prob, st_util, mdl, sims) ==
    [k \in 1..Len(rubric) |->
        Detail(rubric[k], StrategyOf[rubric[k]], weights, f, m, sent_prob, st_util, mdl,
               sims[k])]

\* total of lines 360 and 393: the sum of score * weight over the criteria
Total(details) ==
    SumSeq([k \in 1..Len(details) |-> details[k].score_normalized * details[k].weight])

\* final_score of line 402, exact as num / den
FinalScore(total, weight_sum) ==
    IF weight_sum # 0
    THEN [num |-> 100 * total, den |-> Unit * weight_sum]
    ELSE [num |-> 0, den |-> 1]

\* lines 404-415: (round(final_score, 2), details, meta); overall_score is in
\* hundredths
Report(final_score, details, m, duration_sec, sent_prob) ==
    [overall_score |-> RoundHalfEven(100 * final_score.num, final_score.den),
     final_score |-> final_score,
     details |-> details,
     meta |-> [word_count |-> m.wc, duration_sec |-> duration_sec, wpm |-> m.wpm,
               ttr |-> m.ttr, grammar_score |-> m.grammar_score,
               grammar_errors |-> m.grammar_errors,
               filler_rate_per_100 |-> m.filler_rate,
               sentiment_prob |-> sent_prob]]

\* lines 358-402: the weight sum, the loop and the final score
Aggregate(details, weights, m, duration_sec, sent_prob) ==
    Report(FinalScore(Total(details), WeightSum(weights)), details, m, duration_sec, sent_prob)

\* evaluate_transcript after the metrics are computed (lines 358-415)
EvaluateWith(rubric, weights, f, m, duration_sec, sent_prob, st_util, mdl, sims) ==
    Aggregate(Details(rubric, weights, f, m, sent_prob, st_util, mdl, sims),
              weights, m, duration_sec, sent_prob)

\* evaluate_transcript, lines 344-415
Evaluate(rubric, weights, tr, duration_sec, matches, sent_prob, st_util, mdl, sims) ==
    EvaluateWith(rubric, weights, TextFacts[tr],
                 Metrics(TextFacts[tr], duration_sec, matches),
                 duration_sec, sent_prob, st_util, mdl, sims)

----------------------------------------------------------------------------
(* The server: each thread of the worker pool serves one POST /evaluate.   *)
(* A request that raises ends at pc = "error" (the exception leaves        *)
(* evaluate_transcript and evaluate_api, which catch nothing there).       *)

serverVars == <<model, sentiment_analyzer, tool, st_util_g, constructed,
                rubric_struct, overall_weights, pc, req>>
loadVars == <<sheet, loaded>>

Loaded == <<"loaded">>

\* server.py:47-50, float(duration) if duration else None, None on any exception
ParseDuration(duration) ==
    IF duration = None \/ duration = <<"">> THEN None
    ELSE LET f == ParseFloat(duration[1])
         IN  IF f[1] = "n" THEN <<f[2]>> ELSE None

\* what the sentiment pipeline does: a (label, score) pair or an exception
SentimentOutcomes ==
    {<<"POSITIVE", (9 * Unit) \div 10>>, <<"NEGATIVE", (9 * Unit) \div 10>>, <<"raise">>}

\* what the embedding similarity does: a cosine in [-1, 1] or an exception
SimOutcomes == {<<"ok", (4 * Unit) \div 10>>, <<"ok", 0 - (Unit \div 10)>>, <<"raise">>}

NewReq ==
    [transcript |-> "", duration |-> None, dur |-> None, ret |-> "",
     passed_check |-> FALSE, st_util |-> None, text |-> "",
     matches |-> 0, sent_prob |-> 0, result |-> None]

\* the parts of the state a specification does not use stay at these values
ServerIdle ==
    /\ model = None /\ sentiment_analyzer = None /\ tool = None /\ st_util_g = None
    /\ constructed = [c \in {"model", "sentiment_analyzer", "tool"} |-> 0]
    /\ rubric_struct = <<>> /\ overall_weights = EmptyDict
    /\ pc = [t \in Threads |-> "off"]
    /\ req = [t \in Threads |-> NewReq]

MapIdle == map_call = [fn |-> "none", done |-> TRUE]

LoadIdle == sheet = <<>> /\ loaded = None

AllSet == model # None /\ sentiment_analyzer # None /\ tool # None

\* server.py:41-50, the request arrives and its duration is converted
Receive(t) ==
    /\ pc[t] = "idle"
    /\ \E tr \in Transcripts, d \in DurationForms :
          req' = [req EXCEPT ![t] = [NewReq EXCEPT !.transcript = tr, !.duration = d,
                                                   !.dur = ParseDuration(d)]]
    /\ pc' = [pc EXCEPT ![t] = "check"]
    /\ UNCHANGED <<model, sentiment_analyzer, tool, st_util_g, constructed,
                   rubric_struct, overall_weights, map_call, loadVars>>

\* ai_model.py:338-339, the readiness check of evaluate_transcript
CheckReady(t) ==
    /\ pc[t] = "check"
    /\ IF AllSet
       THEN /\ pc' = [pc EXCEPT ![t] = "util"]
            /\ req' = [req EXCEPT ![t].passed_check = TRUE]
       ELSE /\ pc' = [pc EXCEPT ![t] = "init_check"]
            /\ req' = [req EXCEPT ![t].ret = "util"]
    /\ UNCHANGED <<model, sentiment_analyzer, tool, st_util_g, constructed,
                   rubric_struct, overall_weights, map_call, loadVars>>

\* ai_model.py:38-39, init_models returns at once when everything is set
InitCheck(t) ==
    /\ pc[t] = "init_check"
    /\ pc' = [pc EXCEPT ![t] = IF AllSet THEN req[t].ret ELSE "init_model"]
    /\ UNCHANGED <<model, sentiment_analyzer, tool, st_util_g, constructed, req,
                   rubric_struct, overall_weights, map_call, loadVars>>

\* ai_model.py:42-48, the imports and model = SentenceTransformer(...)
InitModel(t) ==
    /\ pc[t] = "init_model"
    /\ model' = Loaded
    /\ constructed' = [constructed EXCEPT !["model"] = @ + 1]
    /\ pc' = [pc EXCEPT ![t] = "init_sentiment"]
    /\ UNCHANGED <<sentiment_analyzer, tool, st_util_g, req,
                   rubric_struct, overall_weights, map_call, loadVars>>

\* ai_model.py:50, sentiment_analyzer = _pipeline(...)
InitSentiment(t) ==
    /\ pc[t] = "init_sentiment"
    /\ sentiment_analyzer' = Loaded
    /\ constructed' = [constructed EXCEPT !["sentiment_analyzer"] = @ + 1]
    /\ pc' = [pc EXCEPT ![t] = "init_tool"]
    /\ UNCHANGED <<model, tool, st_util_g, req,
                   rubric_struct, overall_weights, map_call, loadVars>>

\* ai_model.py:52, tool = _ltp.LanguageTool('en-US')
InitTool(t) ==
    /\ pc[t] = "init_tool"
    /\ tool' = Loaded
    /\ constructed' = [constructed EXCEPT !["tool"] = @ + 1]
    /\ pc' = [pc EXCEPT ![t] = "init_util"]
    /\ UNCHANGED <<model, sentiment_analyzer, st_util_g, req,
                   rubric_struct, overall_weights, map_call, loadVars>>

\* ai_model.py:55, globals()['_st_util'] = _util, and the return to the caller
InitUtil(t) ==
    /\ pc[t] = "init_util"
    /\ st_util_g' = Loaded
    /\ pc' = [pc EXCEPT ![t] = req[t].ret]
    /\ UNCHANGED <<model, sentiment_analyzer, tool, constructed, req,
                   rubric_struct, overall_weights, map_call, loadVars>>

\* ai_model.py:42-52, an import or a constructor raises (no model files, no
\* language-tool server): nothing catches it
InitFail(t) ==
    /\ pc[t] \in {"init_model", "init_sentiment", "init_tool"}
    /\ pc' = [pc EXCEPT ![t] = "error"]
    /\ UNCHANGED <<model, sentiment_analyzer, tool, st_util_g, constructed, req,
                   rubric_struct, overall_weights, map_call, loadVars>>

\* ai_model.py:342-348, the alias of the similarity helper is read and the
\* text is cleaned (the text metrics are functions of the cleaned text)
ReadUtil(t) ==
    /\ pc[t] = "util"
    /\ req' = [req EXCEPT ![t].st_util = st_util_g,
                          ![t].text = TextFacts[req[t].transcript].text]
    /\ pc' = [pc EXCEPT ![t] = "grammar"]
    /\ UNCHANGED <<model, sentiment_analyzer, tool, st_util_g, constructed,
                   rubric_struct, overall_weights, map_call, loadVars>>

\* ai_model.py:349 and 101-115, grammar_error_score(text): blank text returns
\* at once, an unset tool runs init_models first, else tool.check(text) answers
Grammar(t) ==
    /\ pc[t] = "grammar"
    /\ IF Strip(req[t].text) = ""
       THEN /\ pc' = [pc EXCEPT ![t] = "sentiment"]
            /\ req' = req
       ELSE IF tool = None
       THEN /\ pc' = [pc EXCEPT ![t] = "init_check"]
            /\ req' = [req EXCEPT ![t].ret = "grammar"]
       ELSE /\ pc' = [pc EXCEPT ![t] = "sentiment"]
            /\ \E n \in 0..MaxMatches : req' = [req EXCEPT ![t].matches = n]
    /\ UNCHANGED <<model, sentiment_analyzer, tool, st_util_g, constructed,
                   rubric_struct, overall_weights, map_call, loadVars>>

\* ai_model.py:109, tool.check(text) raises: nothing catches it
GrammarFail(t) ==
    /\ pc[t] = "grammar"
    /\ Strip(req[t].text) # "" /\ tool # None
    /\ pc' = [pc EXCEPT ![t] = "error"]
    /\ UNCHANGED <<model, sentiment_analyzer, tool, st_util_g, constructed, req,
                   rubric_struct, overall_weights, map_call, loadVars>>

\* ai_model.py:352-356, the sentiment call inside try/except
Sentiment(t) ==
    /\ pc[t] = "sentiment"
    /\ \E o \in SentimentOutcomes :
          req' = [req EXCEPT ![t].sent_prob =
                      IF sentiment_analyzer = None \/ o[1] = "raise" THEN Unit \div 2
                      ELSE IF o[1] = "POSITIVE" THEN o[2] ELSE Unit - o[2]]
    /\ pc' = [pc EXCEPT ![t] = "score"]
    /\ UNCHANGED <<model, sentiment_analyzer, tool, st_util_g, constructed,
                   rubric_struct, overall_weights, map_call, loadVars>>

\* the embedding outcomes of one request: one per criterion scored by similarity
SimChoices(rubric) ==
    {f \in [1..Len(rubric) -> SimOutcomes] :
        \A k \in 1..Len(rubric) :
            StrategyOf[rubric[k]] # "similarity" => f[k] = <<"raise">>}

\* ai_model.py:358-415 and server.py:60-64, the scoring loop and the response
Score(t) ==
    /\ pc[t] = "score"
    /\ \E sims \in SimChoices(rubric_struct) :
          req' = [req EXCEPT ![t].result =
                      <<Evaluate(rubric_struct, overall_weights, req[t].transcript, req[t].dur,
                                 req[t].matches, req[t].sent_prob,
                                 req[t].st_util, model, sims)>>]
    /\ pc' = [pc EXCEPT ![t] = "done"]
    /\ UNCHANGED <<model, sentiment_analyzer, tool, st_util_g, constructed,
                   rubric_struct, overall_weights, map_call, loadVars>>

Next ==
    \E t \in Threads :
        \/ Receive(t) \/ CheckReady(t)
        \/ InitCheck(t) \/ InitModel(t) \/ InitSentiment(t) \/ InitTool(t) \/ InitUtil(t)
        \/ InitFail(t)
        \/ ReadUtil(t) \/ Grammar(t) \/ GrammarFail(t) \/ Sentiment(t) \/ Score(t)

Init ==
    /\ model = None /\ sentiment_analyzer = None /\ tool = None /\ st_util_g = None
    /\ constructed = [c \in {"model", "sentiment_analyzer", "tool"} |-> 0]
    /\ rubric_struct = ServerRubric /\ overall_weights = DefaultWeights
    /\ pc = [t \in Threads |-> "idle"]
    /\ req = [t \in Threads |-> NewReq]
    /\ MapIdle /\ LoadIdle

\* the server under concurrent requests
Spec == Init /\ [][Next]_vars

\* one request at a time, over the rubrics and weight tables of EvalConfigs
InitEval ==
    /\ model = None /\ sentiment_analyzer = None /\ tool = None /\ st_util_g = None
    /\ constructed = [c \in {"model", "sentiment_analyzer", "tool"} |-> 0]
    /\ \E cfg \in EvalConfigs : rubric_struct = cfg[1] /\ overall_weights = cfg[2]
    /\ pc = [t \in Threads |-> IF t = "t1" THEN "idle" ELSE "off"]
    /\ req = [t \in Threads |-> NewReq]
    /\ MapIdle /\ LoadIdle

SpecEval == InitEval /\ [][Next]_vars

----------------------------------------------------------------------------
(* Properties of the evaluation and of the server *)

\* the requests that returned, and what they returned
Returned == {t \in Threads : pc[t] = "done"}
ResultOf(t) == req[t].result[1]

\* C1: the overall_score returned by evaluate_transcript lies in [0,100]
\* whenever every per-criterion score lies in [0,1], criteria absent from the
\* weight table being weighted 1.0 (overall_score is in hundredths).
C1_OverallScoreInRange ==
    \A t \in Returned :
        LET r == ResultOf(t)
        IN  (\A k \in 1..Len(r.details) :
                /\ r.details[k].score_normalized >= 0
                /\ r.details[k].score_normalized <= Unit)
            => (r.overall_score >= 0 /\ r.overall_score <= 100 * 100)

\* the weight the claim gives the criterion crit: its table weight, else 1.0
C2_w(crit) == IF crit \in DOMAIN overall_weights THEN overall_weights[crit] ELSE 1

\* the sum of ALL the weights of the table
C2_W == SumValues(overall_weights, DOMAIN overall_weights)

\* the combined table weight of the criteria present in the structure
C2_Wpresent ==
    SumValues(overall_weights,
              {rubric_struct[k].crit : k \in 1..Len(rubric_struct)} \cap DOMAIN overall_weights)

\* C2: final_score = 100 * (sum over the criteria c of the structure of
\* score_c * w_c) / W, with w_c the table weight of c or 1.0 when c is absent
\* and W the sum of ALL weights of the table (W # 0, else the quotient is
\* not defined), also when the criteria present weigh W' < W together.
C2_FinalScoreOverFullSum ==
    \A t \in Returned :
        LET r == ResultOf(t)
            sum == SumSeq([k \in 1..Len(rubric_struct) |->
                              r.details[k].score_normalized * C2_w(rubric_struct[k].crit)])
        IN  (overall_weights # EmptyDict /\ C2_W # 0) =>
                /\ Len(r.details) = Len(rubric_struct)
                /\ r.final_score.den = Unit * C2_W
                /\ r.final_score.num = 100 * sum

\* a request returned a non-zero score under a table whose present criteria
\* weigh less than the whole table: the score is diluted
C2_Witness ==
    \E t \in Returned :
        /\ C2_Wpresent > 0 /\ C2_Wpresent < C2_W
        /\ ResultOf(t).final_score.num > 0
        /\ ResultOf(t).final_score.den = Unit * C2_W

\* the checks of the chain in their fixed order, said of one criterion:
\* metric is the lower-cased metric of its first entry, blob its lower-cased
\* scoring texts joined by spaces, name its lower-cased criterion name
C9_Order ==
    <<"salutation", "keyword", "flow", "speech_rate", "grammar", "vocabulary", "filler",
      "sentiment">>

C9_Matches(c, i) ==
    LET metric == IF Len(c.entries) > 0 THEN Lower(c.entries[1].metric) ELSE ""
        blob == Lower(Join([k \in 1..Len(c.entries) |-> c.entries[k].scoring_text], " "))
        name == Lower(c.crit)
    IN  CASE i = 1 -> Contains(metric, "salutation") \/ Contains(blob, "salutation")
          [] i = 2 -> Contains(metric, "keyword") \/ Contains(blob, "keyword")
          [] i = 3 -> Contains(metric, "flow") \/ Contains(blob, "flow")
          [] i = 4 -> Contains(metric, "speech") \/ Contains(metric, "rate")
          [] i = 5 -> Contains(metric, "grammar") \/ Contains(name, "language & grammar")
          [] i = 6 -> Contains(metric, "vocabulary") \/ Contains(metric, "ttr")
          [] i = 7 -> Contains(metric, "filler") \/ Contains(blob, "filler")
          [] OTHER -> Contains(metric, "sentiment") \/ Contains(name, "engagement")

\* C9: for every criterion exactly one strategy is applied: that of the first
\* check that matches in the fixed order salutation, keyword, flow,
\* speech/rate, grammar, vocabulary/ttr, filler, sentiment, else the
\* semantic-similarity fallback; a later check is never applied when an
\* earlier one matches.
C9_FirstMatchWins ==
    \A t \in Returned :
        \A k \in 1..Len(rubric_struct) :
            LET c == rubric_struct[k]
                applied == ResultOf(t).details[k].strategy
                hits == {i \in 1..Len(C9_Order) : C9_Matches(c, i)}
            IN  IF hits = {} THEN applied = "similarity"
                ELSE \E i \in hits : /\ \A j \in hits : i <= j
                                     /\ applied = C9_Order[i]

\* a request returned for a criterion that matches two checks of the chain,
\* speech/rate and filler, and was scored by the earlier one
C9_Witness ==
    \E t \in Returned :
        \E k \in 1..Len(rubric_struct) :
            /\ C9_Matches(rubric_struct[k], 4) /\ C9_Matches(rubric_struct[k], 7)
            /\ ResultOf(t).details[k].strategy = "speech_rate"

\* C3: every evaluation request runs to completion and returns a result: no
\* failure of model initialization, grammar check, sentiment classification
\* or embedding similarity, and no malformed duration, reaches the caller as
\* an error.
C3_NoRequestFails == \A t \in Threads : pc[t] # "error"

\* the threads inside the body of init_models (lines 42-55)
InInitBody ==
    {t \in Threads : pc[t] \in {"init_model", "init_sentiment", "init_tool", "init_util"}}

\* C4: under any interleaving of simultaneous first requests, no two
\* executions of the body of init_models overlap and no capability is
\* constructed a second time.
C4_InitAtMostOnce ==
    /\ Cardinality(InInitBody) <= 1
    /\ \A c \in DOMAIN constructed : constructed[c] <= 1

\* C10: a request that passed the readiness check of evaluate_transcript
\* (model, sentiment_analyzer and tool all set) observes _st_util as set.
C10_ReadySeesUtil ==
    \A t \in Threads :
        (req[t].passed_check /\ pc[t] \in {"grammar", "sentiment", "score", "done", "error"})
            => req[t].st_util # None

----------------------------------------------------------------------------
(* RUBRIC PARSING: load_rubric on a sheet                                  *)
(* A sheet is the raw grid: a sequence of rows of NumCols cells.  A cell   *)
(* is NaN (empty), a text <<"s", t>> or a number <<"n", v>>.               *)

NaNCell == <<>>
Txt(t) == <<"s", t>>
Num(v) == <<"n", v>>

\* pd.isna(x) / pd.notna(x)
IsNa(c) == c = NaNCell

\* str(x) of a cell value
Str(c) == IF IsNa(c) THEN "nan" ELSE IF c[1] = "s" THEN c[2] ELSE IntToStr(c[2])

\* float(x) of a cell value: a float, NaN for an empty cell, or ValueError
FloatOf(c) == IF IsNa(c) THEN <<"nan">> ELSE IF c[1] = "n" THEN c ELSE ParseFloat(c[2])

\* re.sub(r"\s+", "_", str(c).strip().lower()) of one column label
NormalizeLabel(t) == Join(SplitFrom(Lower(t), 1, ""), "_")

\* the labels pandas gives the columns of a header row, normalized
normalize_columns(hdr) ==
    [k \in 1..Len(hdr) |->
        NormalizeLabel(IF IsNa(hdr[k]) THEN "Unnamed: " \o IntToStr(k - 1) ELSE Str(hdr[k]))]

RowText(row) ==
    LET cells == SelectSeq(row, LAMBDA c : ~IsNa(c))
    IN  Join([k \in 1..Len(cells) |-> Lower(Strip(Str(cells[k])))], " ")

\* the last row (0-based) whose text holds one of the keywords, None if none
find_header_row_for_keyword(raw_df, keywords) ==
    LET hits == {i \in 1..Len(raw_df) : AnyIn(RowText(raw_df[i]), keywords)}
    IN  IF hits = {} THEN None
        ELSE <<(CHOOSE i \in hits : \A j \in hits : j <= i) - 1>>

\* the first column (1-based) whose label holds one of the patterns, 0 if none
find_col_in_df(df_cols, patterns) ==
    LET hits == {k \in 1..Len(df_cols) : AnyIn(df_cols[k], patterns)}
    IN  IF hits = {} THEN 0 ELSE MinOf(hits)

\* df[criteria_col].ffill(): the column with each NaN replaced by the value above
RECURSIVE FFill(_, _)
FFill(col, last) ==
    IF Len(col) = 0 THEN <<>>
    ELSE LET v == IF IsNa(col[1]) THEN last ELSE col[1]
         IN  <<v>> \o FFill(Tail(col), v)

\* the loop over ov.iterrows(): later rows overwrite earlier ones
RECURSIVE WeightRows(_, _, _, _)
WeightRows(rows, crit_col2, weight_col, acc) ==
    IF Len(rows) = 0 THEN acc
    ELSE LET key == rows[1][crit_col2]
             wt  == FloatOf(rows[1][weight_col])
         IN  WeightRows(Tail(rows), crit_col2, weight_col,
                        IF ~IsNa(key) /\ wt # <<"err">>
                        THEN Put(acc, Strip(Str(key)), wt)
                        ELSE acc)

\* the row (0-based) load_rubric reads the overall-weights table from
OverallRow(raw, header_row) ==
    LET found == find_header_row_for_keyword(raw, <<"overall", "overall rubrics", "overall rubric">>)
    IN  IF found # None THEN found[1]
        ELSE IF header_row - 3 >= 0 THEN header_row - 3 ELSE 0

\* overall_weights of load_rubric: name -> float (<<"n", v>> or <<"nan">>)
ParseWeights(raw, header_row) ==
    LET overall_row == OverallRow(raw, header_row)
        cols == normalize_columns(raw[overall_row + 1])
        rows == SubSeq(raw, overall_row + 2, Len(raw))
        crit_col2 == find_col_in_df(cols, <<"criteria", "creter", "crite", "criter">>)
        weight_col == find_col_in_df(cols, <<"weight", "wt", "weightage">>)
        parsed == IF Len(rows) > 0 /\ crit_col2 # 0 /\ weight_col # 0
                  THEN WeightRows(rows, crit_col2, weight_col, EmptyDict)
                  ELSE EmptyDict
    IN  IF DOMAIN parsed = {}
        THEN [x \in DOMAIN DefaultWeights |-> Num(DefaultWeights[x])]
        ELSE parsed

\* rubric_struct of load_rubric as a mapping name -> entries in sheet order;
\* each entry also records the sheet row (0-based) it was read from
ParseStruct(raw, header_row) ==
    LET cols == normalize_columns(raw[header_row + 1])
        idx  == SelectSeq([i \in 1..(Len(raw) - header_row - 1) |-> header_row + 1 + i],
                          LAMBDA i : \E k \in 1..Len(raw[i]) : ~IsNa(raw[i][k]))
        criteria_col == find_col_in_df(cols, <<"criteria", "creteria", "criter", "crite">>)
        metric_col   == find_col_in_df(cols, <<"metric">>)
        scoring_col  == find_col_in_df(cols, <<"scoring">>)
    IN  IF criteria_col = 0 THEN [ok |-> FALSE]                    \* ValueError
        ELSE IF Len(idx) = 0 THEN [ok |-> FALSE]                   \* groupby: KeyError
        ELSE LET filled == FFill([k \in 1..Len(idx) |-> raw[idx[k]][criteria_col]], NaNCell)
                 parsed == [k \in 1..Len(idx) |->
                     [criteria |-> Strip(Str(filled[k])),
                      metric |-> IF metric_col # 0 THEN Strip(Str(raw[idx[k]][metric_col])) ELSE "",
                      scoring_text |-> IF scoring_col # 0 THEN Strip(Str(raw[idx[k]][scoring_col])) ELSE "",
                      keywords |-> <<>>,
                      row |-> idx[k] - 1]]
                 keys == {parsed[k].criteria : k \in 1..Len(parsed)}
             IN  [ok |-> TRUE,
                  rubric_struct |-> [crit \in keys |-> SelectSeq(parsed, LAMBDA e : e.criteria = crit)]]

\* the detailed table's header row (0-based), None when there is none
HeaderRow(raw) ==
    LET h1 == find_header_row_for_keyword(raw, <<"criteria", "creteria", "criter">>)
    IN  IF h1 = None
        THEN find_header_row_for_keyword(raw, <<"metric", "scoring", "weightage">>)
        ELSE h1

\* load_rubric(excel_path): [ok |-> FALSE] is ValueError, else the pair returned
load_rubric(raw) ==
    LET h2 == HeaderRow(raw)
    IN  IF h2 = None THEN [ok |-> FALSE]
        ELSE LET ps == ParseStruct(raw, h2[1])
             IN  IF ~ps.ok THEN [ok |-> FALSE]
                 ELSE [ok |-> TRUE, rubric_struct |-> ps.rubric_struct,
                       overall_weights |-> ParseWeights(raw, h2[1])]

----------------------------------------------------------------------------
(* SpecLoad: load_rubric on sheets assembled from an optional weights      *)
(* table, a header row and detail rows                                     *)

\* all sequences over S of length lo..hi
SeqsOf(S, lo, hi) == UNION {[1..n -> S] : n \in lo..hi}

WeightHeaders ==
    {<<Txt("Overall Criteria"), Txt("Weightage"), NaNCell>>}

WeightRowPool ==
    {<<Txt("Clarity"), Num(15), NaNCell>>,
     <<Txt("Engagement"), Num(15), NaNCell>>,
     <<Txt("Clarity"), NaNCell, NaNCell>>,
     <<Txt("Speech Rate"), Txt("high"), NaNCell>>,
     <<Txt("Speech Rate"), Txt(" 10"), NaNCell>>,
     <<Txt("Engagement"), Num(0), NaNCell>>}

DetailHeaders ==
    {<<Txt("Criteria"), Txt("Metric"), Txt("Scoring Description")>>,
     <<Txt(" Creteria "), Txt("Metric"), Txt("Scoring")>>,
     <<Txt("Section"), Txt("Metric"), Txt("Scoring")>>}

DetailRowPool ==
    {<<Txt("Clarity"), Txt("Filler word rate"), Txt("fewer fillers")>>,
     <<Txt("Engagement"), Txt("Sentiment"), Txt("positive tone")>>,
     <<NaNCell, Txt("TTR"), Txt("vocabulary richness")>>,
     <<Txt("  "), Txt("Grammar"), Txt("errors per 100 words")>>,
     <<NaNCell, NaNCell, NaNCell>>}

Sheets ==
    LET tops == {<<>>} \cup
                {<<h>> \o rows : h \in WeightHeaders, rows \in SeqsOf(WeightRowPool, 0, MaxWeightRows)}
    IN  {top \o <<h>> \o rows :
            top \in tops, h \in DetailHeaders, rows \in SeqsOf(DetailRowPool, 1, MaxDetailRows)}

\* server.py:17, rubric_struct, overall_weights = load_rubric(RUBRIC_PATH)
LoadRubric ==
    /\ loaded = None
    /\ loaded' = <<load_rubric(sheet)>>
    /\ UNCHANGED <<serverVars, map_call, sheet>>

InitLoad == ServerIdle /\ MapIdle /\ sheet \in Sheets /\ loaded = None
NextLoad == LoadRubric
SpecLoad == InitLoad /\ [][NextLoad]_vars

\* a cell that is missing or holds only white space
Blank(c) == IsNa(c) \/ (c[1] = "s" /\ Strip(c[2]) = "")

\* a weight cell float() turns into a number
NumericCell(c) == ~IsNa(c) /\ FloatOf(c)[1] = "n"

\* C6: an entry of the WeightTable is recorded only for rows whose weight cell
\* holds a numeric value; a row whose weight cell is missing or non-numeric
\* adds no entry; so every weight of the returned table is a positive number.
C6_WeightsNumericPositive ==
    (loaded # None /\ loaded[1].ok) =>
        LET wt == loaded[1].overall_weights
            orow == OverallRow(sheet, HeaderRow(sheet)[1])
            cols == normalize_columns(sheet[orow + 1])
            ccol == find_col_in_df(cols, <<"criteria", "creter", "crite", "criter">>)
            wcol == find_col_in_df(cols, <<"weight", "wt", "weightage">>)
            rows == SubSeq(sheet, orow + 2, Len(sheet))
            fromTable == wt # [x \in DOMAIN DefaultWeights |-> Num(DefaultWeights[x])]
        IN  /\ \A k \in DOMAIN wt : wt[k][1] = "n" /\ wt[k][2] > 0
            /\ fromTable =>
                 \A k \in DOMAIN wt :
                    \E i \in 1..Len(rows) :
                        /\ ~IsNa(rows[i][ccol])
                        /\ Strip(Str(rows[i][ccol])) = k
                        /\ NumericCell(rows[i][wcol])

\* C7: every detailed-table row whose criteria cell is blank or missing is
\* grouped under the nearest non-blank criteria value above it; every
\* criterion key is a non-empty name stated in the sheet and has at least one
\* entry; rows within a group keep their sheet order.
C7_ForwardFillGroups ==
    (loaded # None /\ loaded[1].ok) =>
        LET rs == loaded[1].rubric_struct
            h == HeaderRow(sheet)[1]
            ccol == find_col_in_df(normalize_columns(sheet[h + 1]),
                                   <<"criteria", "creteria", "criter", "crite">>)
            data == {i \in (h + 1)..(Len(sheet) - 1) :
                        \E k \in 1..Len(sheet[i + 1]) : ~IsNa(sheet[i + 1][k])}
            cell(i) == sheet[i + 1][ccol]
            named == {j \in data : ~Blank(cell(j))}
            stated == {Strip(Str(cell(j))) : j \in named}
            above(i) == {j \in named : j < i}
            nearest(i) == CHOOSE j \in above(i) : \A j2 \in above(i) : j2 <= j
        IN  /\ \A key \in DOMAIN rs :
                  key # "" /\ key \in stated /\ Len(rs[key]) >= 1
            /\ \A i \in data :
                  (Blank(cell(i)) /\ above(i) # {}) =>
                      LET key == Strip(Str(cell(nearest(i))))
                      IN  key \in DOMAIN rs /\ \E k \in 1..Len(rs[key]) : rs[key][k].row = i
            /\ \A key \in DOMAIN rs :
                  \A k1, k2 \in 1..Len(rs[key]) :
                      k1 < k2 => rs[key][k1].row < rs[key][k2].row

----------------------------------------------------------------------------
(* SpecMap: the scoring mappers as pure functions *)

\* duration_sec values: absent, non-positive, and positive whole seconds
DurationValues == {None, <<0 - 30>>, <<0>>, <<45>>, <<60>>, <<120>>}

\* the calls: compute_wpm / map_speech_rate on a text of wc words, and
\* map_ttr / map_grammar on the same ratio x = n / d in [0,1]
MapInputs ==
    {[fn |-> "map_speech_rate", wc |-> wc, duration_sec |-> d, done |-> FALSE] :
        wc \in 0..MaxWords, d \in DurationValues}
    \cup UNION {{[fn |-> "bands", x |-> <<n, d>>, done |-> FALSE] : n \in 0..d} :
                  d \in 1..MaxDen}

\* map_speech_rate(compute_wpm(text, duration_sec))
CallSpeechRate ==
    /\ map_call.fn = "map_speech_rate" /\ ~map_call.done
    /\ map_call' = [fn |-> "map_speech_rate", wc |-> map_call.wc,
                    duration_sec |-> map_call.duration_sec, done |-> TRUE,
                    wpm |-> compute_wpm(map_call.wc, map_call.duration_sec),
                    out |-> map_speech_rate(compute_wpm(map_call.wc, map_call.duration_sec))]
    /\ UNCHANGED <<serverVars, loadVars>>

\* map_ttr(x) and map_grammar(x)
CallBands ==
    /\ map_call.fn = "bands" /\ ~map_call.done
    /\ map_call' = [fn |-> "bands", x |-> map_call.x, done |-> TRUE,
                    ttr_out |-> map_ttr(map_call.x),
                    grammar_out |-> map_grammar(map_call.x)]
    /\ UNCHANGED <<serverVars, loadVars>>

InitMap == ServerIdle /\ LoadIdle /\ map_call \in MapInputs
NextMap == CallSpeechRate \/ CallBands
SpecMap == InitMap /\ [][NextMap]_vars

\* the value k / 10 of a score
Tenths(k) == (k * Unit) \div 10

\* C5: for every wpm produced by compute_wpm, map_speech_rate returns 0.0 for
\* null, 1.0 for 111-140, 0.6 for 81-110, 0.2 for wpm > 160 or wpm < 80, and
\* 0.4 only when wpm is 80 or lies in 141-160; a missing or non-positive
\* duration always yields null wpm and hence 0.0.
C5_SpeechRateBands ==
    (map_call.fn = "map_speech_rate" /\ map_call.done) =>
        LET w == map_call.wpm
            out == map_call.out
            d == map_call.duration_sec
        IN  /\ (w = None => out = 0)
            /\ (w # None =>
                  /\ (Ge(w, 111) /\ Le(w, 140) => out = Unit)
                  /\ (Ge(w, 81) /\ Le(w, 110) => out = Tenths(6))
                  /\ (Gt(w, 160) \/ Lt(w, 80) => out = Tenths(2))
                  /\ (out = Tenths(4) =>
                        \/ w[1] = 80 * w[2]
                        \/ (Ge(w, 141) /\ Le(w, 160))))
            /\ ((d = None \/ (d # None /\ d[1] <= 0)) => (w = None /\ out = 0))

\* C8 as stated: map_ttr(x) = map_grammar(x) for every x in [0,1], the
\* thresholds 0.9, 0.7, 0.5 and 0.3 included.
C8_SameBandsEverywhere ==
    (map_call.fn = "bands" /\ map_call.done) => map_call.ttr_out = map_call.grammar_out

\* C8 as amended: map_ttr(x) = map_grammar(x) for every x in [0,1] other than
\* 0.9 (x > 0.9 gives 1.0; >= 0.7 gives 0.8; >= 0.5 gives 0.6; >= 0.3 gives
\* 0.4; else 0.2); at x = 0.9 map_ttr gives 1.0 and map_grammar gives 0.8.
C8_SameBandsExceptAtTop ==
    (map_call.fn = "bands" /\ map_call.done) =>
        LET x == map_call.x
            band == IF Gt10(x, 9) THEN Unit
                    ELSE IF Ge10(x, 7) THEN Tenths(8)
                    ELSE IF Ge10(x, 5) THEN Tenths(6)
                    ELSE IF Ge10(x, 3) THEN Tenths(4)
                    ELSE Tenths(2)
        IN  /\ map_call.grammar_out = band
            /\ (10 * x[1] # 9 * x[2] => map_call.ttr_out = band)
            /\ (10 * x[1] = 9 * x[2] =>
                  map_call.ttr_out = Unit /\ map_call.grammar_out = Tenths(8))

\* both mappers were applied to the threshold 0.7 and gave 0.8
C8_Witness ==
    /\ map_call.fn = "bands" /\ map_call.done
    /\ 10 * map_call.x[1] = 7 * map_call.x[2]
    /\ map_call.ttr_out = Tenths(8)
    /\ map_call.grammar_out = Tenths(8)

====
